---- MODULE Spec2Model ----
(***************************************************************************)
(* log-path: a decorator that logs Enter/Exit/Error records for method     *)
(* calls, correlates nested calls through a per-owner registry, and routes *)
(* the records under a process-wide configuration.                         *)
(*                                                                         *)
(* The model has three parts: ConfigService (validate, merge, set, get),   *)
(* initLogPath, and the LogPath wrapper with its registry and log          *)
(* emission.  The wrapper runs on a single-threaded event loop: the        *)
(* synchronous part of a wrapper is one atomic step up to the point where  *)
(* the wrapped body runs; promise callbacks run one at a time when the     *)
(* call stack is empty.                                                    *)
(***************************************************************************)
EXTENDS Integers, Sequences, FiniteSets, TLC

VARIABLES
    config,      \* ConfigService.config (static field)
    errConsole,  \* lines written by console.error (initLogPath)
    nSets,       \* number of setConfig / initLogPath calls made so far
    everSet,     \* whether some setConfig has stored a configuration
    lastOp,      \* what the caller of the last configuration call observed
    contexts,    \* the registry: owner -> ProcessContext (a WeakMap)
    nextId,      \* the next identifier uuidv4() returns
    calls,       \* the instrumented calls begun so far, in the order begun
    stack        \* the calls whose wrapped body is running, innermost last

cfgVars == <<config, errConsole, nSets, everSet, lastOp>>
callVars == <<contexts, nextId, calls, stack>>
vars == <<config, errConsole, nSets, everSet, lastOp,
          contexts, nextId, calls, stack>>

(***************************************************************************)
(* Bounds of the model.                                                    *)
(***************************************************************************)
MaxSets == 2        \* configuration calls per run
MaxParams == 3      \* longest stored endpointParams
MaxCalls == 2       \* instrumented calls per run
MaxLiveSets == 1    \* configuration calls per run while calls are made
MaxChainCalls == 4  \* instrumented calls per run of asynchronous chains

(***************************************************************************)
(* JavaScript values: a type tag and a printed value.                      *)
(***************************************************************************)
Bool(b) == [type |-> "boolean", val |-> IF b THEN "true" ELSE "false"]
Str(s) == [type |-> "string", val |-> s]
Undefined == [type |-> "undefined", val |-> "undefined"]

typeof(v) == v.type

\* ToBoolean: what `v || d`, `v && w` and `if (v)` test
Truthy(v) ==
    CASE v.type = "boolean" -> v.val = "true"
      [] v.type = "string" -> v.val # ""
      [] OTHER -> FALSE

\* a || d
Or(v, d) == IF Truthy(v) THEN v ELSE d

\* An array-valued property: present or not, with its elements.
Arr(items) == [present |-> TRUE, items |-> items]
NoArr == [present |-> FALSE, items |-> <<>>]

LogLevel == <<"debug", "info", "warn", "error">>

isValidLogLevel(logLevel) ==
    \E i \in 1..Len(LogLevel) : logLevel = Str(LogLevel[i])

\* a built-in configuration that starts in production mode
DEFAULT_CONFIG_Prod ==
    [devMode |-> Bool(FALSE),
     logMode |-> Str("single"),
     endpoint |-> Str("http://default-endpoint.com"),
     endpointParams |-> NoArr]

DEFAULT_CONFIG ==
    [devMode |-> Bool(TRUE),
     logMode |-> Str("single"),
     endpoint |-> Str("http://default-endpoint.com"),
     endpointParams |-> NoArr]

(***************************************************************************)
(* ConfigService.  An argument of setConfig is an object that may lack any *)
(* property (Undefined, NoArr) and that may itself be an array carrying    *)
(* the properties (isArray).                                               *)
(***************************************************************************)
getConfig == config

\* a validateConfig that asks whether endpointParams, not the configuration
\* object, is an array
validateConfigChecksParams(c) ==
    IF \/ typeof(c.devMode) # "boolean"
       \/ typeof(c.logMode) # "string"
       \/ c.logMode.val \notin {"single", "multiple"}
    THEN "false"
    ELSE IF c.logMode = Str("single")
    THEN IF typeof(c.endpoint) = "string" THEN "true" ELSE "false"
    ELSE IF ~c.endpointParams.present THEN "false"
    ELSE IF \A i \in 1..Len(c.endpointParams.items) :
                /\ isValidLogLevel(c.endpointParams.items[i].logLevel)
                /\ typeof(c.endpointParams.items[i].endpoint) = "string"
    THEN "true" ELSE "false"

validateConfig(c) ==
    IF \/ typeof(c.devMode) # "boolean"
       \/ typeof(c.logMode) # "string"
       \/ c.logMode.val \notin {"single", "multiple"}
    THEN "false"
    ELSE IF c.logMode = Str("single")
    THEN IF typeof(c.endpoint) = "string" THEN "true" ELSE "false"
    ELSE IF ~c.isArray THEN "false"
    ELSE IF ~c.endpointParams.present THEN "TypeError"  \* undefined.every
    ELSE IF \A i \in 1..Len(c.endpointParams.items) :
                /\ isValidLogLevel(c.endpointParams.items[i].logLevel)
                /\ typeof(c.endpointParams.items[i].endpoint) = "string"
    THEN "true" ELSE "false"

\* { ...existingConfig, ...newConfig }: the properties newConfig has win
Spread(existingConfig, newConfig) ==
    [devMode |-> IF newConfig.devMode = Undefined
                 THEN existingConfig.devMode ELSE newConfig.devMode,
     logMode |-> IF newConfig.logMode = Undefined
                 THEN existingConfig.logMode ELSE newConfig.logMode,
     endpoint |-> IF newConfig.endpoint = Undefined
                  THEN existingConfig.endpoint ELSE newConfig.endpoint,
     endpointParams |-> IF newConfig.endpointParams.present
                        THEN newConfig.endpointParams
                        ELSE existingConfig.endpointParams]

mergeConfig(existingConfig, newConfig) ==
    IF Truthy(newConfig.logMode) /\ newConfig.logMode # existingConfig.logMode
    THEN IF newConfig.logMode = Str("single")
         THEN [Spread(existingConfig, newConfig) EXCEPT
                 !.endpoint = Or(newConfig.endpoint, DEFAULT_CONFIG.endpoint)]
         ELSE [Spread(existingConfig, newConfig) EXCEPT
                 !.endpointParams =
                     IF newConfig.endpointParams.present
                     THEN newConfig.endpointParams ELSE Arr(<<>>)]
    ELSE IF existingConfig.logMode = Str("multiple")
            /\ newConfig.logMode # Str("single")
    THEN [Spread(existingConfig, newConfig) EXCEPT
            !.endpointParams =
                Arr(existingConfig.endpointParams.items
                    \o newConfig.endpointParams.items)]
    ELSE Spread(existingConfig, newConfig)

\* setConfig storing the merge before it looks at the validation result
setConfigStoresFirst(c) ==
    LET isValid == validateConfig(c) IN
    IF isValid = "TypeError"
    THEN [threw |-> "TypeError", config |-> config]
    ELSE IF isValid = "false"
    THEN [threw |-> "Error: Failed to set config, invalid config",
          config |-> mergeConfig(config, c)]
    ELSE [threw |-> "none", config |-> mergeConfig(config, c)]

\* setConfig as its caller sees it: what was thrown, and the stored config
setConfig(c) ==
    LET isValid == validateConfig(c) IN
    IF isValid = "TypeError"
    THEN [threw |-> "TypeError", config |-> config]
    ELSE IF isValid = "false"
    THEN [threw |-> "Error: Failed to set config, invalid config",
          config |-> config]
    ELSE [threw |-> "none", config |-> mergeConfig(config, c)]

\* initLogPath without its try/catch
initLogPathNoCatch(c) ==
    LET r == setConfig(c) IN
    [threw |-> r.threw, config |-> r.config, errConsole |-> errConsole]

\* initLogPath as its caller sees it
initLogPath(c) ==
    LET r == setConfig(c) IN
    IF r.threw # "none"
    THEN [threw |-> "none", config |-> r.config,
          errConsole |-> Append(errConsole, r.threw)]
    ELSE [threw |-> "none", config |-> r.config, errConsole |-> errConsole]

(***************************************************************************)
(* Arguments of setConfig.                                                 *)
(***************************************************************************)
DevModeVals == {Bool(TRUE), Bool(FALSE), Str("true")}
LogModeVals == {Str("single"), Str("multiple"), Str("both"), Undefined}
EndpointVals == {Str(""), Str("e1"), Undefined}
WarnE1 == [logLevel |-> Str("warn"), endpoint |-> Str("e1")]
WarnE2 == [logLevel |-> Str("warn"), endpoint |-> Str("e2")]
ErrorE3 == [logLevel |-> Str("error"), endpoint |-> Str("e3")]
FatalE1 == [logLevel |-> Str("fatal"), endpoint |-> Str("e1")]
WarnNoEndpoint == [logLevel |-> Str("warn"), endpoint |-> Undefined]
ParamVals ==
    {NoArr, Arr(<<WarnE1>>), Arr(<<WarnE2, ErrorE3>>),
     Arr(<<ErrorE3, FatalE1>>), Arr(<<WarnNoEndpoint>>)}

\* plain objects with every combination of properties
PlainInputs ==
    [isArray : {FALSE},
     devMode : DevModeVals,
     logMode : LogModeVals,
     endpoint : EndpointVals,
     endpointParams : ParamVals]

\* arrays that carry the properties of a multiple-mode configuration
ArrayInputs ==
    [isArray : {TRUE},
     devMode : DevModeVals,
     logMode : {Str("multiple")},
     endpoint : EndpointVals,
     endpointParams : ParamVals]

ConfigInputs == PlainInputs \cup ArrayInputs

NoArg ==
    [isArray |-> FALSE, devMode |-> Undefined, logMode |-> Undefined,
     endpoint |-> Undefined, endpointParams |-> NoArr]

(***************************************************************************)
(* Actions of the configuration store.                                     *)
(***************************************************************************)
SetConfigOp(c) ==
    /\ LET r == setConfig(c) IN
         /\ Len(r.config.endpointParams.items) <= MaxParams
         /\ config' = r.config
         /\ everSet' = (everSet \/ r.threw = "none")
         /\ lastOp' = [op |-> "setConfig", arg |-> c, threw |-> r.threw,
                       before |-> config]
    /\ nSets' = nSets + 1
    /\ UNCHANGED errConsole
    /\ UNCHANGED callVars

InitLogPathOp(c) ==
    /\ LET r == initLogPath(c) IN
         /\ Len(r.config.endpointParams.items) <= MaxParams
         /\ config' = r.config
         /\ errConsole' = r.errConsole
         /\ everSet' = (everSet \/ setConfig(c).threw = "none")
         /\ lastOp' = [op |-> "initLogPath", arg |-> c, threw |-> r.threw,
                       before |-> config]
    /\ nSets' = nSets + 1
    /\ UNCHANGED callVars

(***************************************************************************)
(* The LogPath wrapper.  Identifiers are the successive values of uuidv4;  *)
(* NoId stands for an absent parentId.                                     *)
(***************************************************************************)
NoId == 0

uuidv4 == nextId

Owners == {"svcA", "svcB"}

className == "OrderService"

ErrorObj(m) == [type |-> "Error", val |-> m]

\* the decorated methods of the client class: the options of the decorator,
\* the arguments the client passes, and the value the body fails with when
\* it fails (an Error, or a string that is thrown as it is)
Methods ==
    {[name |-> "processOrder", isTopLevel |-> Bool(TRUE),
      logLevel |-> Undefined, isSensitive |-> Bool(FALSE),
      args |-> <<"order-1">>, failure |-> ErrorObj("boom")],
     [name |-> "validateOrder", isTopLevel |-> Undefined,
      logLevel |-> Str("warn"), isSensitive |-> Undefined,
      args |-> <<"order-1">>, failure |-> Str("oops")],
     [name |-> "chargeCard", isTopLevel |-> Bool(FALSE),
      logLevel |-> Str("debug"), isSensitive |-> Bool(TRUE),
      args |-> <<"card-1">>, failure |-> ErrorObj("declined")]}

\* what a wrapped body can return
Results == {Str("done")}

NoValue == [kind |-> "none", value |-> Undefined]

\* contexts.has / set / delete
has(o) == o \in DOMAIN contexts
set(o, context) == (o :> context) @@ contexts
delete(o) == [x \in (DOMAIN contexts) \ {o} |-> contexts[x]]

\* beginContext linking a child to the parent of the stored entry
beginContextGrandparent(o, isTopLevel) ==
    IF Truthy(isTopLevel)
    THEN [context |-> [processId |-> uuidv4, parentId |-> NoId],
          contexts |-> contexts]
    ELSE IF ~has(o)
    THEN LET context == [processId |-> uuidv4, parentId |-> NoId]
         IN [context |-> context, contexts |-> set(o, context)]
    ELSE LET existingContext == contexts[o]
             context == [processId |-> uuidv4,
                         parentId |-> existingContext.parentId]
         IN [context |-> context, contexts |-> set(o, context)]

\* beginContext registering the context of a top-level call as well
beginContextTopStores(o, isTopLevel) ==
    IF ~has(o)
    THEN LET context == [processId |-> uuidv4, parentId |-> NoId]
         IN [context |-> context, contexts |-> set(o, context)]
    ELSE LET existingContext == contexts[o]
             context == [processId |-> uuidv4,
                         parentId |-> IF Truthy(isTopLevel) THEN NoId
                                      ELSE existingContext.processId]
         IN [context |-> context, contexts |-> set(o, context)]

\* beginContext linking a child that finds no entry to the call it was made
\* from
beginContextLinksCaller(o, isTopLevel) ==
    IF Truthy(isTopLevel)
    THEN [context |-> [processId |-> uuidv4, parentId |-> NoId],
          contexts |-> contexts]
    ELSE IF ~has(o)
    THEN LET caller == calls[stack[Len(stack)]]
             context == [processId |-> uuidv4,
                         parentId |-> IF stack # <<>> /\ caller.owner = o
                                      THEN caller.context.processId
                                      ELSE NoId]
         IN [context |-> context, contexts |-> set(o, context)]
    ELSE LET existingContext == contexts[o]
             context == [processId |-> uuidv4,
                         parentId |-> existingContext.processId]
         IN [context |-> context, contexts |-> set(o, context)]

\* the context of a call on owner o, and the registry after it was made
beginContext(o, isTopLevel) ==
    IF Truthy(isTopLevel)
    THEN [context |-> [processId |-> uuidv4, parentId |-> NoId],
          contexts |-> contexts]
    ELSE IF ~has(o)
    THEN LET context == [processId |-> uuidv4, parentId |-> NoId]
         IN [context |-> context, contexts |-> set(o, context)]
    ELSE LET existingContext == contexts[o]
             context == [processId |-> uuidv4,
                         parentId |-> existingContext.processId]
         IN [context |-> context, contexts |-> set(o, context)]

\* the parts of the message string; withArgs is what sendLog appends
message(logLevel, processId, clsName, methodName, action, parentId) ==
    [timestamp |-> "now", logLevel |-> logLevel,
     hasParent |-> (parentId # NoId), parentId |-> parentId,
     processId |-> processId, action |-> action,
     className |-> clsName, methodName |-> methodName, withArgs |-> <<>>]

LogData(context, logLevel, clsName, methodName, action, text, parentId) ==
    [processId |-> context.processId, parentId |-> context.parentId,
     logLevel |-> logLevel, className |-> clsName,
     methodName |-> methodName, action |-> action, timestamp |-> "now",
     message |-> message(logLevel, context.processId, clsName, methodName,
                         text, parentId),
     hasArgs |-> FALSE, args |-> <<>>,
     hasError |-> FALSE, error |-> ""]

\* sendLog: the record as it is afterwards, the line written by
\* console.log, and the requests posted to remote endpoints; cfg is the
\* configuration sendLog was given, and stored records the configuration
\* ConfigService holds at that moment
sendLog(cfg, logData, logLevel) ==
    LET sent ==
          IF Truthy(cfg.devMode)
          THEN IF logData.hasArgs /\ Len(logData.args) # 0
               THEN LET line == [logData.message
                                    EXCEPT !.withArgs = logData.args]
                    IN [data |-> [logData EXCEPT !.message = line],
                        console |-> <<line>>, posts |-> <<>>]
               ELSE [data |-> logData, console |-> <<logData.message>>,
                     posts |-> <<>>]
          ELSE [data |-> logData, console |-> <<>>, posts |-> <<>>]
    IN [data |-> sent.data, console |-> sent.console, posts |-> sent.posts,
        cfg |-> cfg, stored |-> getConfig]

\* logEntry attaching the arguments whatever isSensitive says
logEntryAlwaysArgs(cfg, context, clsName, methodName, args, logLevel, isSensitive) ==
    LET logData == LogData(context, logLevel, clsName, methodName, "Enter",
                           "Enter", context.parentId)
    IN sendLog(cfg, [logData EXCEPT !.hasArgs = TRUE, !.args = args],
               logLevel)

logEntry(cfg, context, clsName, methodName, args, logLevel, isSensitive) ==
    LET logData == LogData(context, logLevel, clsName, methodName, "Enter",
                           "Enter", context.parentId)
    IN sendLog(cfg,
               IF ~isSensitive
               THEN [logData EXCEPT !.hasArgs = TRUE, !.args = args]
               ELSE logData,
               logLevel)

logExit(cfg, context, clsName, methodName, logLevel) ==
    sendLog(cfg,
            LogData(context, logLevel, clsName, methodName, "Exit", "Exit",
                    context.parentId),
            logLevel)

\* error instanceof Error ? error.message : String(error)
ErrorText(error) == error.val

logError(cfg, context, clsName, methodName, error) ==
    LET logData == LogData(context, "error", clsName, methodName, "Error",
                           "Enter", context.parentId)
    IN sendLog(cfg,
               [logData EXCEPT !.hasError = TRUE,
                               !.error = ErrorText(error)],
               "error")

\* options.logLevel || 'info'
levelOf(m) == Or(m.logLevel, Str("info")).val

\* the .then, .catch and .finally callbacks of the wrapper: the record
\* written and what the callback passes down the promise chain
\* a .then callback that reads the configuration again when it runs
onFulfilledRereads(call, result) ==
    [entry |-> logExit(getConfig, call.context, className,
                       call.method.name, levelOf(call.method)),
     passed |-> [kind |-> "resolve", value |-> result]]

onFulfilled(call, result) ==
    [entry |-> logExit(call.config, call.context, className,
                       call.method.name, levelOf(call.method)),
     passed |-> [kind |-> "resolve", value |-> result]]

\* a .catch callback that logs the failure and does not throw it again
onRejectedSwallows(call, e) ==
    [entry |-> logError(call.config, call.context, className,
                        call.method.name, e),
     passed |-> [kind |-> "resolve", value |-> Undefined]]

onRejected(call, e) ==
    [entry |-> logError(call.config, call.context, className,
                        call.method.name, e),
     passed |-> [kind |-> "reject", value |-> e]]

\* a .finally callback that removes the entry whatever isTopLevel says
onFinallyAlwaysDeletes(call) == delete(call.owner)

\* a .finally callback that keeps the entry while another top-level call
\* on the owner has not completed
onFinallyKeepsWhileOthersRun(call) ==
    IF /\ Truthy(call.method.isTopLevel)
       /\ ~\E d \in 1..Len(calls) :
              /\ calls[d].owner = call.owner
              /\ Truthy(calls[d].method.isTopLevel)
              /\ calls[d].context # call.context
              /\ calls[d].pc \in {"body", "pending", "exitLogged",
                                  "errorLogged"}
    THEN delete(call.owner) ELSE contexts

onFinally(call) ==
    IF Truthy(call.method.isTopLevel) THEN delete(call.owner) ELSE contexts

\* the synchronous completion of the wrapper after the body returned
afterReturn(call) ==
    [entry |-> logExit(call.config, call.context, className,
                       call.method.name, levelOf(call.method)),
     contexts |-> IF Truthy(call.method.isTopLevel)
                  THEN delete(call.owner) ELSE contexts]

(***************************************************************************)
(* Actions of the wrapper.                                                 *)
(***************************************************************************)
Top == stack[Len(stack)]
Pop == SubSeq(stack, 1, Len(stack) - 1)

\* descriptor.value up to originalMethod.apply: the body starts running
Begin(o, m) ==
    /\ LET cfg == getConfig
           b == beginContext(o, m.isTopLevel)
           entry == logEntry(cfg, b.context, className, m.name, m.args,
                             levelOf(m), Truthy(Or(m.isSensitive, Bool(FALSE))))
       IN /\ contexts' = b.contexts
          /\ calls' = Append(calls,
                [owner |-> o, method |-> m, config |-> cfg,
                 context |-> b.context, pc |-> "body",
                 uninit |-> ~everSet,
                 produced |-> NoValue, passed |-> NoValue,
                 observed |-> NoValue, log |-> <<entry>>])
    /\ nextId' = nextId + 1
    /\ stack' = Append(stack, Len(calls) + 1)
    /\ UNCHANGED cfgVars

\* the body returns a value that is no Promise
ReturnSync(v) ==
    /\ stack # <<>>
    /\ LET call == calls[Top]
           r == afterReturn(call)
       IN /\ contexts' = r.contexts
          /\ calls' = [calls EXCEPT ![Top] =
                [call EXCEPT !.pc = "returned",
                             !.produced = [kind |-> "return", value |-> v],
                             !.observed = [kind |-> "return", value |-> v],
                             !.log = Append(@, r.entry)]]
    /\ stack' = Pop
    /\ UNCHANGED <<nextId, cfgVars>>

\* a wrapper that catches the synchronous exception, writes an Error
\* record and throws it again
ThrowSyncLogsError ==
    /\ stack # <<>>
    /\ LET e == calls[Top].method.failure
       IN calls' = [calls EXCEPT ![Top] =
            [@ EXCEPT !.pc = "threw",
                      !.produced = [kind |-> "throw", value |-> e],
                      !.observed = [kind |-> "throw", value |-> e],
                      !.log = Append(@, onRejected(calls[Top], e).entry)]]
    /\ stack' = Pop
    /\ UNCHANGED <<contexts, nextId, cfgVars>>

\* the body throws: the exception leaves the wrapper at once
ThrowSync ==
    /\ stack # <<>>
    /\ LET e == calls[Top].method.failure
       IN calls' = [calls EXCEPT ![Top] =
            [@ EXCEPT !.pc = "threw",
                      !.produced = [kind |-> "throw", value |-> e],
                      !.observed = [kind |-> "throw", value |-> e]]]
    /\ stack' = Pop
    /\ UNCHANGED <<contexts, nextId, cfgVars>>

\* a wrapper that writes the Exit record when the Promise is returned,
\* before it has settled
ReturnPromiseLogsExit ==
    /\ stack # <<>>
    /\ calls' = [calls EXCEPT ![Top] =
            [@ EXCEPT !.pc = "pending",
                      !.log = Append(@, afterReturn(calls[Top]).entry)]]
    /\ stack' = Pop
    /\ UNCHANGED <<contexts, nextId, cfgVars>>

\* the body returns a Promise: the callbacks are attached
ReturnPromise ==
    /\ stack # <<>>
    /\ calls' = [calls EXCEPT ![Top] = [@ EXCEPT !.pc = "pending"]]
    /\ stack' = Pop
    /\ UNCHANGED <<contexts, nextId, cfgVars>>

\* the Promise was fulfilled with v and the .then callback runs
ThenCallback(c, v) ==
    /\ stack = <<>>
    /\ calls[c].pc = "pending"
    /\ LET r == onFulfilled(calls[c], v)
       IN calls' = [calls EXCEPT ![c] =
            [@ EXCEPT !.pc = "exitLogged",
                      !.produced = [kind |-> "resolve", value |-> v],
                      !.passed = r.passed,
                      !.log = Append(@, r.entry)]]
    /\ UNCHANGED <<contexts, nextId, stack, cfgVars>>

\* the Promise was rejected and the .catch callback runs
CatchCallback(c) ==
    /\ stack = <<>>
    /\ calls[c].pc = "pending"
    /\ LET e == calls[c].method.failure
           r == onRejected(calls[c], e)
       IN calls' = [calls EXCEPT ![c] =
            [@ EXCEPT !.pc = "errorLogged",
                      !.produced = [kind |-> "reject", value |-> e],
                      !.passed = r.passed,
                      !.log = Append(@, r.entry)]]
    /\ UNCHANGED <<contexts, nextId, stack, cfgVars>>

\* the .finally callback runs and the Promise the caller holds settles
FinallyCallback(c) ==
    /\ stack = <<>>
    /\ calls[c].pc \in {"exitLogged", "errorLogged"}
    /\ contexts' = onFinally(calls[c])
    /\ calls' = [calls EXCEPT ![c] =
            [@ EXCEPT !.pc = IF calls[c].passed.kind = "resolve"
                             THEN "resolved" ELSE "rejected",
                      !.observed = calls[c].passed]]
    /\ UNCHANGED <<nextId, stack, cfgVars>>

Init ==
    /\ config = DEFAULT_CONFIG
    /\ errConsole = <<>>
    /\ nSets = 0
    /\ everSet = FALSE
    /\ lastOp = [op |-> "none", arg |-> NoArg, threw |-> "none",
                 before |-> DEFAULT_CONFIG]
    /\ contexts = <<>>
    /\ nextId = 1
    /\ calls = <<>>
    /\ stack = <<>>

NextConfig ==
    \/ \E c \in ConfigInputs : nSets < MaxSets /\ SetConfigOp(c)
    \/ \E c \in ConfigInputs : nSets < MaxSets /\ InitLogPathOp(c)

\* the configuration store alone, with every argument of ConfigInputs
SpecConfig == Init /\ [][NextConfig]_vars

\* the configurations set while calls are made: one for production, the
\* multiple-endpoint example of the README, and the same carried by an array
ProdSingle ==
    [isArray |-> FALSE, devMode |-> Bool(FALSE), logMode |-> Str("single"),
     endpoint |-> Str("e1"), endpointParams |-> NoArr]
ReadmeMultiple ==
    [isArray |-> FALSE, devMode |-> Bool(FALSE), logMode |-> Str("multiple"),
     endpoint |-> Undefined,
     endpointParams |-> Arr(<<WarnE1, WarnE2, ErrorE3>>)]
ArrayMultiple == [ReadmeMultiple EXCEPT !.isArray = TRUE]

LiveConfigInputs == {ProdSingle, ReadmeMultiple, ArrayMultiple}

\* a top-level method and a non-top-level method
ChainMethods == {m \in Methods : m.name \in {"processOrder", "validateOrder"}}

\* a step of the wrapper for a call of a method of M on an owner of O
Wrapper(O, M) ==
    \/ \E o \in O, m \in M : Len(calls) < MaxCalls /\ Begin(o, m)
    \/ \E v \in Results : ReturnSync(v)
    \/ ThrowSync
    \/ ReturnPromise
    \/ \E c \in 1..Len(calls), v \in Results : ThenCallback(c, v)
    \/ \E c \in 1..Len(calls) : CatchCallback(c)
    \/ \E c \in 1..Len(calls) : FinallyCallback(c)

\* calls on every owner under the built-in configuration
Next == Wrapper(Owners, Methods)

Spec == Init /\ [][Next]_vars

\* calls on one owner while setConfig is called
NextLive ==
    \/ \E c \in LiveConfigInputs : nSets < MaxLiveSets /\ SetConfigOp(c)
    \/ Wrapper({"svcA"}, ChainMethods)

SpecLive == Init /\ [][NextLive]_vars

\* chains of asynchronous calls on one owner: the bodies return Promises
NextChain ==
    \/ \E m \in ChainMethods :
          Len(calls) < MaxChainCalls /\ Begin("svcA", m)
    \/ ReturnPromise
    \/ \E c \in 1..Len(calls), v \in Results : ThenCallback(c, v)
    \/ \E c \in 1..Len(calls) : CatchCallback(c)
    \/ \E c \in 1..Len(calls) : FinallyCallback(c)

SpecChain == Init /\ [][NextChain]_vars

(***************************************************************************)
(* Properties of the configuration store.                                  *)
(***************************************************************************)
\* the configurations the documentation calls invalid
BadElement(p) ==
    \/ p.logLevel.type # "string"
    \/ p.logLevel.val \notin {"debug", "info", "warn", "error"}
    \/ p.endpoint.type # "string"

DocInvalid(c) ==
    \/ c.devMode.type # "boolean"
    \/ c.logMode = Undefined
    \/ c.logMode \notin {Str("single"), Str("multiple")}
    \/ c.logMode = Str("single") /\ c.endpoint.type # "string"
    \/ /\ c.logMode = Str("multiple")
       /\ \E i \in 1..Len(c.endpointParams.items) :
              BadElement(c.endpointParams.items[i])

DocValidSingle(c) ==
    /\ c.devMode.type = "boolean"
    /\ c.logMode = Str("single")
    /\ c.endpoint.type = "string"

DocValidMultiple(c) ==
    /\ c.devMode.type = "boolean"
    /\ c.logMode = Str("multiple")
    /\ c.endpointParams.present
    /\ \A i \in 1..Len(c.endpointParams.items) :
           ~BadElement(c.endpointParams.items[i])

\* C4: a setConfig whose argument is invalid (devMode not boolean, logMode
\* missing or unrecognized, endpoint not a string in single mode, a bad
\* endpointParams element in multiple mode) throws to its caller and leaves
\* the stored configuration as it was, so getConfig returns what it returned
\* before the call.
C4_InvalidSetRejected ==
    (lastOp.op = "setConfig" /\ DocInvalid(lastOp.arg))
        => /\ lastOp.threw # "none"
           /\ getConfig = lastOp.before

\* an invalid array-borne multiple-mode argument was rejected while a
\* configuration other than the default was stored
C4_Witness ==
    /\ lastOp.op = "setConfig"
    /\ DocInvalid(lastOp.arg)
    /\ lastOp.arg.isArray
    /\ lastOp.arg.devMode.type = "boolean"
    /\ lastOp.before # DEFAULT_CONFIG
    /\ lastOp.threw # "none"

\* C5 (as claimed): for every valid single-mode argument and every stored
\* configuration, setConfig succeeds and getConfig then returns logMode
\* 'single', the supplied devMode and exactly the supplied endpoint.
C5_SingleRoundTrip ==
    (lastOp.op = "setConfig" /\ DocValidSingle(lastOp.arg))
        => /\ lastOp.threw = "none"
           /\ getConfig.logMode = Str("single")
           /\ getConfig.devMode = lastOp.arg.devMode
           /\ getConfig.endpoint = lastOp.arg.endpoint

\* C6 (as claimed): for every valid multiple-mode argument applied while
\* the stored configuration is in single mode, setConfig succeeds and
\* getConfig then returns logMode 'multiple' with endpointParams equal to
\* the supplied sequence.
C6_MultipleRoundTrip ==
    (/\ lastOp.op = "setConfig"
     /\ DocValidMultiple(lastOp.arg)
     /\ lastOp.before.logMode = Str("single"))
        => /\ lastOp.threw = "none"
           /\ getConfig.logMode = Str("multiple")
           /\ getConfig.endpointParams = lastOp.arg.endpointParams

Final == {"returned", "threw", "resolved", "rejected"}

IsTop(call) == Truthy(call.method.isTopLevel)

\* the step begins a call
Begins == Len(calls') = Len(calls) + 1

\* the step completes call c: its caller has the result or the failure
Completes(c) == calls[c].pc \notin Final /\ calls'[c].pc \in Final

Count(log, action) ==
    Cardinality({i \in DOMAIN log : log[i].data.action = action})

\* C1 (as claimed): when a top-level call on an owner completes, by
\* returning, resolving, throwing or rejecting, the registry holds no entry
\* for that owner, and none appears until a non-top-level call on that
\* owner begins.
C1_NoEntryAfterTopLevel ==
    [][/\ \A c \in 1..Len(calls) :
             (IsTop(calls[c]) /\ Completes(c))
                 => calls[c].owner \notin DOMAIN contexts'
       /\ \A o \in Owners :
             (o \notin DOMAIN contexts /\ o \in DOMAIN contexts')
                 => /\ Begins
                    /\ ~IsTop(calls'[Len(calls')])
                    /\ calls'[Len(calls')].owner = o]_vars

\* C2: a non-top-level call gets a fresh processId; its parentId is the
\* processId of the entry stored for its owner just before the call began,
\* or absent when there was no entry; the new context is then the stored
\* entry of its owner, and no other owner's entry changes.
C2_ChildLinksToStoredEntry ==
    [][(Begins /\ ~IsTop(calls'[Len(calls')]))
          => LET new == calls'[Len(calls')] IN
             /\ \A c \in 1..Len(calls) :
                   calls[c].context.processId # new.context.processId
             /\ new.context.parentId =
                   IF new.owner \in DOMAIN contexts
                   THEN contexts[new.owner].processId ELSE NoId
             /\ new.owner \in DOMAIN contexts'
             /\ contexts'[new.owner] = new.context
             /\ \A o \in Owners \ {new.owner} :
                   /\ (o \in DOMAIN contexts') = (o \in DOMAIN contexts)
                   /\ o \in DOMAIN contexts => contexts'[o] = contexts[o]]_vars

\* a non-top-level call found an entry, was linked to it and replaced it
C2_Witness ==
    \E c \in 1..Len(calls) :
        /\ ~IsTop(calls[c])
        /\ calls[c].context.parentId # NoId
        /\ calls[c].owner \in DOMAIN contexts
        /\ contexts[calls[c].owner] = calls[c].context
        /\ \E d \in 1..Len(calls) :
              /\ calls[d].owner = calls[c].owner
              /\ calls[d].context.processId = calls[c].context.parentId

\* C3: a top-level call, whatever the registry holds for its owner, gets a
\* processId that no earlier call got and no parentId, and beginning it
\* leaves the registry as it was.
C3_TopLevelFreshAndUnregistered ==
    [][(Begins /\ IsTop(calls'[Len(calls')]))
          => LET new == calls'[Len(calls')] IN
             /\ \A c \in 1..Len(calls) :
                   calls[c].context.processId # new.context.processId
             /\ new.context.parentId = NoId
             /\ contexts' = contexts]_vars

\* two top-level calls were made one after the other on the same owner
C3_Witness ==
    \E c, d \in 1..Len(calls) :
        /\ c < d
        /\ IsTop(calls[c]) /\ IsTop(calls[d])
        /\ calls[c].owner = calls[d].owner
        /\ calls[c].pc \in Final
        /\ calls[c].context.processId # calls[d].context.processId
        /\ calls[d].context.parentId = NoId

\* C9: an asynchronous call that fails has exactly one Error record and no
\* Exit record, written before its caller sees the rejection, and the
\* caller sees the value the body rejected with; one that succeeds has
\* exactly one Exit record and no Error record, and the caller receives
\* the body's result.
C9_AsyncOutcomePreserved ==
    \A c \in 1..Len(calls) :
        LET call == calls[c] IN
        /\ call.pc = "pending"
              => Count(call.log, "Error") = 0 /\ Count(call.log, "Exit") = 0
        /\ call.pc \in {"errorLogged", "rejected"}
              => /\ Count(call.log, "Error") = 1
                 /\ Count(call.log, "Exit") = 0
                 /\ call.produced = [kind |-> "reject",
                                     value |-> call.method.failure]
        /\ call.pc = "rejected"
              => call.observed = [kind |-> "reject",
                                  value |-> call.produced.value]
        /\ call.pc \in {"exitLogged", "resolved"}
              => /\ Count(call.log, "Exit") = 1
                 /\ Count(call.log, "Error") = 0
                 /\ call.produced.kind = "resolve"
        /\ call.pc = "resolved"
              => call.observed = [kind |-> "resolve",
                                  value |-> call.produced.value]

\* the caller of an asynchronous call has seen it fail
C9_Witness ==
    \E c \in 1..Len(calls) :
        /\ calls[c].pc = "rejected"
        /\ calls[c].observed.value = calls[c].method.failure
        /\ Count(calls[c].log, "Error") = 1

Targets(cfg, level) ==
    IF cfg.logMode = Str("single")
    THEN {cfg.endpoint}
    ELSE {cfg.endpointParams.items[i].endpoint :
            i \in {k \in 1..Len(cfg.endpointParams.items) :
                     cfg.endpointParams.items[k].logLevel = Str(level)}}

\* C10 (as claimed): with devMode false every record is posted, in single
\* mode to the configured endpoint, in multiple mode to exactly the
\* endpoints registered for the record's log level.
C10_RecordsForwarded ==
    \A c \in 1..Len(calls) :
        \A i \in DOMAIN calls[c].log :
            LET e == calls[c].log[i] IN
            ~Truthy(calls[c].config.devMode)
                => {e.posts[k].endpoint : k \in DOMAIN e.posts}
                      = Targets(calls[c].config, e.data.logLevel)

C11_ArgsOnlyOnNonSensitiveEnter ==
    \A c \in 1..Len(calls) :
        LET call == calls[c] IN
        /\ call.log[1].data.action = "Enter"
        /\ IF call.method.isSensitive = Bool(TRUE)
           THEN ~call.log[1].data.hasArgs
           ELSE /\ call.method.isSensitive \in {Bool(FALSE), Undefined}
                /\ call.log[1].data.hasArgs
                /\ call.log[1].data.args = call.method.args
        /\ \A i \in DOMAIN call.log :
              call.log[i].data.action \in {"Exit", "Error"}
                  => ~call.log[i].data.hasArgs

\* a sensitive call and a call with isSensitive unset have both been made,
\* and one of them has its Exit or Error record
C11_Witness ==
    \E c, d \in 1..Len(calls) :
        /\ calls[c].method.isSensitive = Bool(TRUE)
        /\ ~calls[c].log[1].data.hasArgs
        /\ calls[d].method.isSensitive = Undefined
        /\ calls[d].log[1].data.hasArgs
        /\ Len(calls[d].log) = 2

\* C13: the Enter record of a call is its first record and is there as
\* soon as the body runs; while the outcome of the body is not known (the
\* body is running, or the Promise it returned is pending) the call has no
\* other record; an Exit or Error record is written only after the outcome
\* is known, so none precedes the Enter record of its call.
C13_EnterBeforeBodyExitAfterOutcome ==
    \A c \in 1..Len(calls) :
        LET call == calls[c] IN
        /\ Len(call.log) >= 1
        /\ call.log[1].data.action = "Enter"
        /\ \A i \in 2..Len(call.log) :
              call.log[i].data.action \in {"Exit", "Error"}
        /\ call.pc \in {"body", "pending"} =>
              /\ Len(call.log) = 1
              /\ call.produced = NoValue
        /\ Len(call.log) > 1 => call.produced # NoValue

\* two asynchronous calls interleave: the second one ran while the Promise
\* of the first was pending and got its Exit or Error record first
C13_Witness ==
    \E c, d \in 1..Len(calls) :
        /\ c < d
        /\ calls[c].pc = "pending"
        /\ Len(calls[c].log) = 1
        /\ calls[d].pc \in {"exitLogged", "errorLogged"}
        /\ Len(calls[d].log) = 2

\* C17: a synchronous call whose body throws hands the exception to its
\* caller and has no Exit and no Error record: the Enter record is the only
\* record of the call.
C17_SyncThrowOnlyEnter ==
    \A c \in 1..Len(calls) :
        calls[c].pc = "threw" =>
            /\ calls[c].observed =
                   [kind |-> "throw", value |-> calls[c].method.failure]
            /\ Len(calls[c].log) = 1
            /\ calls[c].log[1].data.action = "Enter"

\* a body has thrown synchronously and a later call on the same owner has
\* run to its end
C17_Witness ==
    \E c, d \in 1..Len(calls) :
        /\ c < d
        /\ calls[c].pc = "threw"
        /\ calls[d].owner = calls[c].owner
        /\ calls[d].pc = "returned"

\* C16: the message of every record, Enter, Exit and Error alike, names
\* the record's own action, logLevel and processId, and the record's
\* parentId exactly when the context has a parent.
C16_MessageNamesOwnAction ==
    \A c \in 1..Len(calls) :
        \A i \in DOMAIN calls[c].log :
            LET d == calls[c].log[i].data IN
            /\ d.message.action = d.action
            /\ d.message.logLevel = d.logLevel
            /\ d.message.processId = d.processId
            /\ d.message.hasParent = (d.parentId # NoId)
            /\ d.message.hasParent => d.message.parentId = d.parentId

C14_SetInFlightChangesRouting ==
    \A c \in 1..Len(calls) :
        \A i \in 2..Len(calls[c].log) :
            calls[c].log[i].stored # calls[c].log[1].stored
                => calls[c].log[i].cfg # calls[c].log[1].cfg

\* C14 (amended): every record of a call, Enter, Exit or Error, is routed
\* under the configuration that was stored when the call began, whatever
\* setConfig stored while the call was in flight; a devMode configuration
\* writes the record to the console and any other writes nothing there.
C14_RoutedUnderConfigAtCallStart ==
    \A c \in 1..Len(calls) :
        /\ calls[c].log[1].stored = calls[c].config
        /\ \A i \in DOMAIN calls[c].log :
              /\ calls[c].log[i].cfg = calls[c].config
              /\ (calls[c].log[i].console # <<>>)
                     = Truthy(calls[c].config.devMode)

\* a call began under the default configuration, setConfig
\* then stored a configuration with devMode false, and the Exit record of
\* the call was still written to the console
C14_Witness ==
    \E c \in 1..Len(calls) :
        /\ Len(calls[c].log) = 2
        /\ calls[c].log[2].data.action = "Exit"
        /\ calls[c].log[1].stored = DEFAULT_CONFIG
        /\ calls[c].log[2].stored.devMode = Bool(FALSE)
        /\ calls[c].log[2].cfg = DEFAULT_CONFIG
        /\ calls[c].log[2].console # <<>>

(***************************************************************************)
(* The registry under interleaved calls.                                   *)
(***************************************************************************)
\* the non-top-level calls made on owner o so far, and the last of them
Children(cs, o) ==
    {c \in 1..Len(cs) : cs[c].owner = o /\ ~IsTop(cs[c])}

LastChild(cs, o) ==
    CHOOSE c \in Children(cs, o) : \A d \in Children(cs, o) : d <= c

\* C15: an owner that has a registry entry has the context of the
\* non-top-level call that began last on it; the completion of a
\* non-top-level call leaves the registry as it was; so a non-top-level
\* call that finds an entry gets as parentId the processId of the
\* non-top-level call that began last on its owner, running or not.
C15_EntryIsLastBegunChild ==
    [][/\ \A o \in DOMAIN contexts' :
             /\ Children(calls', o) # {}
             /\ contexts'[o] = calls'[LastChild(calls', o)].context
       /\ \A c \in 1..Len(calls) :
             (Completes(c) /\ ~IsTop(calls[c])) => contexts' = contexts
       /\ (/\ Begins
           /\ ~IsTop(calls'[Len(calls')])
           /\ calls'[Len(calls')].owner \in DOMAIN contexts)
              => calls'[Len(calls')].context.parentId =
                   calls[LastChild(calls, calls'[Len(calls')].owner)]
                       .context.processId]_vars

\* a non-top-level asynchronous call has completed, its context is still
\* the entry of its owner, and the next non-top-level call on that owner
\* was linked to it
C15_Witness ==
    \E c, d \in 1..Len(calls) :
        /\ c < d
        /\ ~IsTop(calls[c]) /\ ~IsTop(calls[d])
        /\ calls[c].owner = calls[d].owner
        /\ calls[c].pc \in {"resolved", "rejected"}
        /\ calls[d].context.parentId = calls[c].context.processId
        /\ contexts[calls[d].owner] = calls[d].context

\* C20: when an asynchronous top-level call completes, its owner has no
\* registry entry afterwards, also while another top-level call on that
\* owner is still in flight and whichever call registered the entry; a
\* non-top-level call that begins when its owner has no entry gets no
\* parentId.
C20_CompletionRemovesEntryOfRunningChain ==
    [][/\ \A c \in 1..Len(calls) :
             (/\ Completes(c)
              /\ IsTop(calls[c])
              /\ calls[c].pc \in {"exitLogged", "errorLogged"})
                 => calls[c].owner \notin DOMAIN contexts'
       /\ (/\ Begins
           /\ ~IsTop(calls'[Len(calls')])
           /\ calls'[Len(calls')].owner \notin DOMAIN contexts)
              => calls'[Len(calls')].context.parentId = NoId]_vars

\* two top-level calls a < b were in flight on one owner; a non-top-level
\* call c begun after b registered its context; a completed while b was
\* pending; the non-top-level call d begun after that has no parent
C20_Witness ==
    \E a, b, c, d \in 1..Len(calls) :
        /\ a < b /\ b < c /\ c < d
        /\ IsTop(calls[a]) /\ IsTop(calls[b])
        /\ ~IsTop(calls[c]) /\ ~IsTop(calls[d])
        /\ calls[a].pc \in {"resolved", "rejected"}
        /\ calls[b].pc = "pending"
        /\ calls[c].context.parentId = NoId
        /\ calls[d].context.parentId = NoId
        /\ contexts["svcA"] = calls[d].context
====
